---------------------------- MODULE Spec2Model ----------------------------
(***************************************************************************)
(* Model of the binary_oracle program                                      *)
(* (programs/oracle-contracts/src/lib.rs): one Oracle account, the Node    *)
(* accounts created by join_network against it, and the wallets that sign  *)
(* the instructions.                                                       *)
(*                                                                         *)
(* Every instruction is one action.  An instruction is a transaction: a    *)
(* failed require!, a failed account constraint or an arithmetic panic     *)
(* (lamports are u64, the subtraction is checked) aborts it and leaves     *)
(* every account as it was: a failed instruction is a stuttering step, and *)
(* <instruction>_error gives the error it returns ("Ok" when it succeeds). *)
(* The variable `op` names the instruction that succeeded last.            *)
(*                                                                         *)
(* Scope: a single Oracle account.  Node accounts created against another  *)
(* Oracle of the same program are not part of the model, and neither are   *)
(* the checks the runtime makes outside the program (rent exemption, who   *)
(* may debit an account).                                                  *)
(***************************************************************************)
EXTENDS Integers, Sequences, FiniteSets

\* ------------------------------------------------------------------ bounds
NumNonces == 2           \* nonces a node may choose from
MaxTime == 2             \* the clock stops advancing here
MaxCandidates == 2       \* longest remaining_accounts list handed to resolve
Collateral == 3          \* collateral given to initialize
RevealWindow == 1        \* reveal_duration given to initialize

\* max_nodes given to initialize (tests/binary_oracle_tests.rs line 30)
MaxNodes == 3

\* Lamports the init of a Node account moves into it (its rent-exempt
\* minimum): enough for two slashings and not for a third
NodeRent == 2 * Collateral

\* Lamports the Oracle account holds after initialize (its rent-exempt
\* minimum, larger than that of a Node account: the account is larger)
OracleRent == NodeRent + 1

\* Lamports each wallet holds after initialize: enough for one join
WalletFunds == NodeRent + Collateral + 1

\* Node account addresses: one more than may join, so that a join can be
\* attempted when the network is full.  The addresses are interchangeable;
\* Keys 1.. are the wallets that pay for and own the node of the same number,
\* key 0 is the wallet that created the oracle.
Nodes == 1..(MaxNodes + 1)
Keys == 0..(MaxNodes + 1)
OracleAuthority == 0
Nonces == 0..(NumNonces - 1)

\* Phase (lib.rs 192-197), in declaration order
Precommit == 0
Commit == 1
Reveal == 2
Complete == 3

\* Option<T>: None is the empty tuple, Some(x) the one-element tuple
None == <<>>
Some(x) == <<x>>
unwrap(o) == o[1]

VARIABLES
  authority,        \* Oracle.authority
  collateral,       \* Oracle.collateral
  is_resolved,      \* Oracle.is_resolved
  resolution_bit,   \* Oracle.resolution_bit
  phase,            \* Oracle.phase
  reveal_end_time,  \* Oracle.reveal_end_time
  reveal_duration,  \* Oracle.reveal_duration
  max_nodes,        \* Oracle.max_nodes
  total_nodes,      \* Oracle.total_nodes
  committed_nodes,  \* Oracle.committed_nodes
  node,             \* Nodes -> the Node account's data (exists = initialised)
  oracle_lamports,  \* lamports of the Oracle account
  node_lamports,    \* Nodes -> lamports of the Node account
  wallet_lamports,  \* Keys -> lamports of the signer's account
  now,              \* Clock::get().unix_timestamp
  op,               \* the instruction that succeeded last
  accounts          \* ctx.remaining_accounts of that instruction (resolve)

oracle_vars == <<authority, collateral, is_resolved, resolution_bit, phase,
                 reveal_end_time, reveal_duration, max_nodes, total_nodes,
                 committed_nodes>>
lamport_vars == <<oracle_lamports, node_lamports, wallet_lamports>>
vars == <<oracle_vars, node, lamport_vars, now, op, accounts>>

\* ------------------------------------------------------------------ hash
\* vote as u8
vote_byte(vote) == IF vote THEN 1 ELSE 0

\* [&[vote as u8], &nonce[..]].concat(): the preimage, vote byte first
concat(vote, nonce) == <<vote_byte(vote), nonce>>

\* solana_program::hash::hash(..).to_bytes(): SHA-256, modelled as a
\* collision-free numbering of the preimages; digest 0 has no preimage
\* among the modelled (vote, nonce) pairs.
hash(data) == 1 + data[1] + 2 * data[2]

Digests == 0..(2 * NumNonces)

\* ------------------------------------------------------------------ accounts
\* A Node account that join_network has not initialised yet
NoNode == [exists |-> FALSE, authority |-> -1, vote_hash |-> None,
           vote |-> None, slashed |-> FALSE]

\* initialize (the state after construction)
Init ==
  /\ authority = OracleAuthority
  /\ collateral = Collateral
  /\ is_resolved = FALSE
  /\ resolution_bit = FALSE
  /\ phase = Precommit
  /\ reveal_end_time = 0
  /\ reveal_duration = RevealWindow
  /\ max_nodes = MaxNodes
  /\ total_nodes = 0
  /\ committed_nodes = 0
  /\ node = [n \in Nodes |-> NoNode]
  /\ oracle_lamports = OracleRent
  /\ node_lamports = [n \in Nodes |-> 0]
  /\ wallet_lamports = [k \in Keys |-> WalletFunds]
  /\ now = 0
  /\ op = "initialize"
  /\ accounts = <<>>

\* ------------------------------------------------------------------ join_network
\* (mutant) join_network without the max_nodes check
join_network_error_uncapped(n, payer) ==
  IF node[n].exists THEN "AccountAlreadyInUse"
  ELSE IF wallet_lamports[payer] < NodeRent THEN "InsufficientFunds"
  ELSE IF ~(phase = Precommit \/ phase = Commit) THEN "InvalidPhaseForJoining"
  ELSE IF wallet_lamports[payer] - NodeRent < collateral THEN "InsufficientFunds"
  ELSE "Ok"

\* (mutant) join_network without the phase check
join_network_error_any_phase(n, payer) ==
  IF node[n].exists THEN "AccountAlreadyInUse"
  ELSE IF wallet_lamports[payer] < NodeRent THEN "InsufficientFunds"
  ELSE IF ~(total_nodes < max_nodes) THEN "MaxNodesReached"
  ELSE IF wallet_lamports[payer] - NodeRent < collateral THEN "InsufficientFunds"
  ELSE "Ok"

join_network_error(n, payer) ==
  IF node[n].exists THEN "AccountAlreadyInUse"
  ELSE IF wallet_lamports[payer] < NodeRent THEN "InsufficientFunds"
  ELSE IF ~(phase = Precommit \/ phase = Commit) THEN "InvalidPhaseForJoining"
  ELSE IF ~(total_nodes < max_nodes) THEN "MaxNodesReached"
  ELSE IF wallet_lamports[payer] - NodeRent < collateral THEN "InsufficientFunds"
  ELSE "Ok"

\* (mutant) join_network that debits the collateral and never credits the pool
join_network_no_escrow(n, payer) ==
  /\ join_network_error(n, payer) = "Ok"
  /\ wallet_lamports' =
       [wallet_lamports EXCEPT ![payer] = @ - NodeRent - collateral]
  /\ node_lamports' = [node_lamports EXCEPT ![n] = NodeRent]
  /\ oracle_lamports' = oracle_lamports
  /\ node' = [node EXCEPT ![n] = [exists |-> TRUE, authority |-> payer,
                                  vote_hash |-> None, vote |-> None,
                                  slashed |-> FALSE]]
  /\ total_nodes' = total_nodes + 1
  /\ op' = "join_network"
  /\ accounts' = <<>>
  /\ UNCHANGED <<authority, collateral, is_resolved, resolution_bit, phase,
                 reveal_end_time, reveal_duration, max_nodes,
                 committed_nodes, now>>

join_network(n, payer) ==
  /\ join_network_error(n, payer) = "Ok"
  /\ wallet_lamports' =
       [wallet_lamports EXCEPT ![payer] = @ - NodeRent - collateral]
  /\ node_lamports' = [node_lamports EXCEPT ![n] = NodeRent]
  /\ oracle_lamports' = oracle_lamports + collateral
  /\ node' = [node EXCEPT ![n] = [exists |-> TRUE, authority |-> payer,
                                  vote_hash |-> None, vote |-> None,
                                  slashed |-> FALSE]]
  /\ total_nodes' = total_nodes + 1
  /\ op' = "join_network"
  /\ accounts' = <<>>
  /\ UNCHANGED <<authority, collateral, is_resolved, resolution_bit, phase,
                 reveal_end_time, reveal_duration, max_nodes,
                 committed_nodes, now>>

\* ------------------------------------------------------------------ start_request
\* (mutant) start_request without the phase check
start_request_error_any_phase(signer) ==
  IF signer # authority THEN "UnauthorizedAccess" ELSE "Ok"

\* (mutant) start_request without the authority check
start_request_error_any_signer(signer) ==
  IF phase # Precommit THEN "InvalidPhase" ELSE "Ok"

start_request_error(signer) ==
  IF phase # Precommit THEN "InvalidPhase"
  ELSE IF signer # authority THEN "UnauthorizedAccess"
  ELSE "Ok"

start_request(signer) ==
  /\ start_request_error(signer) = "Ok"
  /\ phase' = Commit
  /\ committed_nodes' = 0
  /\ op' = "start_request"
  /\ accounts' = <<>>
  /\ UNCHANGED <<authority, collateral, is_resolved, resolution_bit,
                 reveal_end_time, reveal_duration, max_nodes, total_nodes,
                 node, lamport_vars, now>>

\* ------------------------------------------------------------------ commit
\* (mutant) commit without the AlreadyCommitted check
commit_error_recommit(n, signer) ==
  IF ~node[n].exists THEN "AccountNotInitialized"
  ELSE IF node[n].authority # signer THEN "ConstraintHasOne"
  ELSE IF phase # Commit THEN "InvalidPhase"
  ELSE "Ok"

commit_error(n, signer) ==
  IF ~node[n].exists THEN "AccountNotInitialized"
  ELSE IF node[n].authority # signer THEN "ConstraintHasOne"
  ELSE IF phase # Commit THEN "InvalidPhase"
  ELSE IF node[n].vote_hash # None THEN "AlreadyCommitted"
  ELSE "Ok"

\* (mutant) commit that opens the reveal window from time 0, not from now
commit_window_from_zero(n, signer, vote_hash) ==
  /\ commit_error(n, signer) = "Ok"
  /\ LET all_committed == (committed_nodes + 1 = total_nodes) IN
     /\ phase' = IF all_committed THEN Reveal ELSE phase
     /\ reveal_end_time' =
          IF all_committed THEN reveal_duration ELSE reveal_end_time
  /\ node' = [node EXCEPT ![n].vote_hash = Some(vote_hash)]
  /\ committed_nodes' = committed_nodes + 1
  /\ op' = "commit"
  /\ accounts' = <<>>
  /\ UNCHANGED <<authority, collateral, is_resolved, resolution_bit,
                 reveal_duration, max_nodes, total_nodes, lamport_vars, now>>

\* (mutant) commit that compares committed_nodes with total_nodes before it
\* increments it
commit_checks_before_increment(n, signer, vote_hash) ==
  /\ commit_error(n, signer) = "Ok"
  /\ LET all_committed == (committed_nodes = total_nodes) IN
     /\ phase' = IF all_committed THEN Reveal ELSE phase
     /\ reveal_end_time' =
          IF all_committed THEN now + reveal_duration ELSE reveal_end_time
  /\ node' = [node EXCEPT ![n].vote_hash = Some(vote_hash)]
  /\ committed_nodes' = committed_nodes + 1
  /\ op' = "commit"
  /\ accounts' = <<>>
  /\ UNCHANGED <<authority, collateral, is_resolved, resolution_bit,
                 reveal_duration, max_nodes, total_nodes, lamport_vars, now>>

commit(n, signer, vote_hash) ==
  /\ commit_error(n, signer) = "Ok"
  /\ LET all_committed == (committed_nodes + 1 = total_nodes) IN
     /\ phase' = IF all_committed THEN Reveal ELSE phase
     /\ reveal_end_time' =
          IF all_committed THEN now + reveal_duration ELSE reveal_end_time
  /\ node' = [node EXCEPT ![n].vote_hash = Some(vote_hash)]
  /\ committed_nodes' = committed_nodes + 1
  /\ op' = "commit"
  /\ accounts' = <<>>
  /\ UNCHANGED <<authority, collateral, is_resolved, resolution_bit,
                 reveal_duration, max_nodes, total_nodes, lamport_vars, now>>

\* ------------------------------------------------------------------ reveal
\* (mutant) reveal that does not compare the hash with the commitment
reveal_error_unbound(n, signer, vote, nonce) ==
  IF ~node[n].exists THEN "AccountNotInitialized"
  ELSE IF node[n].authority # signer THEN "ConstraintHasOne"
  ELSE IF phase # Reveal THEN "InvalidPhase"
  ELSE IF ~(now <= reveal_end_time) THEN "RevealPhaseClosed"
  ELSE IF node[n].vote_hash = None THEN "NotCommitted"
  ELSE IF node[n].vote # None THEN "AlreadyRevealed"
  ELSE "Ok"

\* (mutant) reveal that closes the window at the deadline itself
reveal_error_exclusive(n, signer, vote, nonce) ==
  IF ~node[n].exists THEN "AccountNotInitialized"
  ELSE IF node[n].authority # signer THEN "ConstraintHasOne"
  ELSE IF phase # Reveal THEN "InvalidPhase"
  ELSE IF ~(now < reveal_end_time) THEN "RevealPhaseClosed"
  ELSE IF node[n].vote_hash = None THEN "NotCommitted"
  ELSE IF node[n].vote # None THEN "AlreadyRevealed"
  ELSE IF hash(concat(vote, nonce)) # unwrap(node[n].vote_hash)
    THEN "InvalidReveal"
  ELSE "Ok"

reveal_error(n, signer, vote, nonce) ==
  IF ~node[n].exists THEN "AccountNotInitialized"
  ELSE IF node[n].authority # signer THEN "ConstraintHasOne"
  ELSE IF phase # Reveal THEN "InvalidPhase"
  ELSE IF ~(now <= reveal_end_time) THEN "RevealPhaseClosed"
  ELSE IF node[n].vote_hash = None THEN "NotCommitted"
  ELSE IF node[n].vote # None THEN "AlreadyRevealed"
  ELSE IF hash(concat(vote, nonce)) # unwrap(node[n].vote_hash)
    THEN "InvalidReveal"
  ELSE "Ok"

reveal(n, signer, vote, nonce) ==
  /\ reveal_error(n, signer, vote, nonce) = "Ok"
  /\ node' = [node EXCEPT ![n].vote = Some(vote)]
  /\ op' = "reveal"
  /\ accounts' = <<>>
  /\ UNCHANGED <<oracle_vars, lamport_vars, now>>

\* ------------------------------------------------------------------ clock
\* The clock sysvar advances between instructions
Tick ==
  /\ now < MaxTime
  /\ now' = now + 1
  /\ op' = "tick"
  /\ accounts' = <<>>
  /\ UNCHANGED <<oracle_vars, node, lamport_vars>>

\* ------------------------------------------------------------------ slash_colluding
\* (mutant) slash_colluding that does not compare the hash
slash_colluding_error_unproved(n, vote, nonce) ==
  IF ~node[n].exists THEN "AccountNotInitialized"
  ELSE IF phase # Commit THEN "InvalidPhase"
  ELSE IF node[n].vote_hash = None THEN "NotCommitted"
  ELSE IF node_lamports[n] < collateral THEN "Panic"
  ELSE "Ok"

slash_colluding_error(n, vote, nonce) ==
  IF ~node[n].exists THEN "AccountNotInitialized"
  ELSE IF phase # Commit THEN "InvalidPhase"
  ELSE IF node[n].vote_hash = None THEN "NotCommitted"
  ELSE IF hash(concat(vote, nonce)) # unwrap(node[n].vote_hash)
    THEN "InvalidCollusion"
  ELSE IF node_lamports[n] < collateral THEN "Panic"
  ELSE "Ok"

slash_colluding(n, vote, nonce) ==
  /\ slash_colluding_error(n, vote, nonce) = "Ok"
  /\ node_lamports' = [node_lamports EXCEPT ![n] = @ - collateral]
  /\ oracle_lamports' = oracle_lamports + collateral
  /\ node' = [node EXCEPT ![n].slashed = TRUE]
  /\ op' = "slash_colluding"
  /\ accounts' = <<>>
  /\ UNCHANGED <<oracle_vars, wallet_lamports, now>>

\* ------------------------------------------------------------------ resolve
\* The first loop over ctx.remaining_accounts (lib.rs 148-164): the locals
\* true_votes, false_votes and total_nodes after the first i accounts
RECURSIVE count_votes(_, _)
count_votes(accts, i) ==
  IF i = 0 THEN [true_votes |-> 0, false_votes |-> 0, total_nodes |-> 0]
  ELSE
    LET c == count_votes(accts, i - 1)
        nd == node[accts[i]]
    IN IF nd.slashed THEN c
       ELSE IF nd.vote = None
         THEN [c EXCEPT !.total_nodes = @ + 1]
       ELSE IF unwrap(nd.vote)
         THEN [c EXCEPT !.total_nodes = @ + 1, !.true_votes = @ + 1]
       ELSE [c EXCEPT !.total_nodes = @ + 1, !.false_votes = @ + 1]

resolution(accts) ==
  LET c == count_votes(accts, Len(accts)) IN c.true_votes > c.false_votes

consensus_nodes(accts) ==
  LET c == count_votes(accts, Len(accts)) IN
  IF resolution(accts) THEN c.true_votes ELSE c.false_votes

reward_per_node(accts) ==
  IF consensus_nodes(accts) > 0
    THEN (collateral * count_votes(accts, Len(accts)).total_nodes)
           \div consensus_nodes(accts)
    ELSE 0

\* (mutant) a payout that does not look at the slashed flag
is_rewarded_slashed_too(n, bit) == node[n].vote = Some(bit)

\* Whether the second loop pays the account (lib.rs 179)
is_rewarded(n, bit) == ~node[n].slashed /\ node[n].vote = Some(bit)

\* (mutant) a payout that credits the node and forgets to debit the oracle
RECURSIVE pay_rewards_no_debit(_, _)
pay_rewards_no_debit(accts, i) ==
  IF i = 0
    THEN [ok |-> TRUE, oracle |-> oracle_lamports, nodes |-> node_lamports]
  ELSE
    LET p == pay_rewards_no_debit(accts, i - 1)
        reward == reward_per_node(accts)
    IN IF ~is_rewarded(accts[i], resolution(accts)) THEN p
       ELSE [p EXCEPT !.nodes[accts[i]] = @ + reward]

\* The second loop (lib.rs 177-183): the lamports after the first i accounts;
\* ok turns FALSE when the oracle's checked subtraction underflows
RECURSIVE pay_rewards(_, _)
pay_rewards(accts, i) ==
  IF i = 0
    THEN [ok |-> TRUE, oracle |-> oracle_lamports, nodes |-> node_lamports]
  ELSE
    LET p == pay_rewards(accts, i - 1)
        reward == reward_per_node(accts)
    IN IF ~p.ok \/ ~is_rewarded(accts[i], resolution(accts)) THEN p
       ELSE IF p.oracle < reward THEN [p EXCEPT !.ok = FALSE]
       ELSE [ok |-> TRUE,
             oracle |-> p.oracle - reward,
             nodes |-> [p.nodes EXCEPT ![accts[i]] = @ + reward]]

\* (mutant) resolve that is already allowed at the deadline itself
resolve_error_at_deadline(accts) ==
  IF phase # Reveal THEN "InvalidPhase"
  ELSE IF ~(now >= reveal_end_time) THEN "RevealPhaseNotClosed"
  ELSE IF \E i \in DOMAIN accts : ~node[accts[i]].exists
    THEN "AccountNotInitialized"
  ELSE IF ~pay_rewards(accts, Len(accts)).ok THEN "Panic"
  ELSE "Ok"

resolve_error(accts) ==
  IF phase # Reveal THEN "InvalidPhase"
  ELSE IF ~(now > reveal_end_time) THEN "RevealPhaseNotClosed"
  ELSE IF \E i \in DOMAIN accts : ~node[accts[i]].exists
    THEN "AccountNotInitialized"
  ELSE IF ~pay_rewards(accts, Len(accts)).ok THEN "Panic"
  ELSE "Ok"

resolve(accts) ==
  /\ resolve_error(accts) = "Ok"
  /\ is_resolved' = TRUE
  /\ resolution_bit' = resolution(accts)
  /\ oracle_lamports' = pay_rewards(accts, Len(accts)).oracle
  /\ node_lamports' = pay_rewards(accts, Len(accts)).nodes
  /\ phase' = Complete
  /\ op' = "resolve"
  /\ accounts' = accts
  /\ UNCHANGED <<authority, collateral, reveal_end_time, reveal_duration,
                 max_nodes, total_nodes, committed_nodes, node,
                 wallet_lamports, now>>

\* Every remaining_accounts list of at most MaxCandidates node addresses
AccountLists == UNION {[1..k -> Nodes] : k \in 0..MaxCandidates}

\* The signers tried on a node's instruction: its owner and somebody else
Signers(n) == {n, OracleAuthority}

\* Fresh node addresses are interchangeable: they are taken in increasing order
NextAddress(n) == \A m \in 1..(n - 1) : node[m].exists

Next ==
  \/ \E n \in Nodes : NextAddress(n) /\ join_network(n, n)
  \/ \E k \in {OracleAuthority, 1} : start_request(k)
  \/ \E n \in Nodes : \E k \in Signers(n), h \in Digests : commit(n, k, h)
  \/ \E n \in Nodes : \E k \in Signers(n), v \in BOOLEAN, r \in Nonces :
       reveal(n, k, v, r)
  \/ \E n \in Nodes, v \in BOOLEAN, r \in Nonces : slash_colluding(n, v, r)
  \/ \E accts \in AccountLists : resolve(accts)
  \/ Tick

Spec == Init /\ [][Next]_vars

\* ------------------------------------------------------------------ properties
RECURSIVE SumUpTo(_, _)
SumUpTo(f, k) == IF k < 0 THEN 0
                 ELSE (IF k \in DOMAIN f THEN f[k] ELSE 0) + SumUpTo(f, k - 1)

Joined == {n \in Nodes : node[n].exists}
Committed == {n \in Joined : node[n].vote_hash # None}
Revealed == {n \in Joined : node[n].vote # None}

\* The (vote, nonce) pairs that open a node's commitment
Openings(n) ==
  {p \in BOOLEAN \X Nonces :
     node[n].vote_hash # None
     /\ hash(concat(p[1], p[2])) = unwrap(node[n].vote_hash)}

AllLamports ==
  oracle_lamports + SumUpTo(node_lamports, MaxNodes + 1)
    + SumUpTo(wallet_lamports, MaxNodes + 1)

\* ------------------------------------------------------------------ liveness
\* The clock does not stop while a reveal window is open: past MaxTime it
\* still advances until the deadline that commit stored has passed
WindowTick ==
  /\ phase = Reveal
  /\ MaxTime <= now
  /\ now <= reveal_end_time
  /\ now' = now + 1
  /\ op' = "tick"
  /\ accounts' = <<>>
  /\ UNCHANGED <<oracle_vars, node, lamport_vars>>

LiveNext == Next \/ WindowTick

\* The round under the scheduling C20 assumes: the authority keeps trying
\* start_request, every node keeps trying to commit, the clock keeps
\* running and somebody keeps trying resolve
LiveSpec ==
  /\ Init
  /\ [][LiveNext]_vars
  /\ WF_vars(start_request(OracleAuthority))
  /\ \A n \in Nodes : WF_vars(\E h \in Digests : commit(n, n, h))
  /\ WF_vars(Tick \/ WindowTick)
  /\ WF_vars(\E accts \in AccountLists : resolve(accts))

\* ------------------------------------------------------------------ C1
\* C1 (conservation): in every reachable state the lamports of the oracle
\* pool, of all node accounts and of all joining wallets add up to what they
\* added up to after initialize, and the pool plus the node accounts hold
\* exactly the initial balance of the pool plus what the joins moved in
\* (rent and collateral of every joined node), also after resolve.
C1_Conservation ==
  /\ AllLamports = OracleRent + Cardinality(Keys) * WalletFunds
  /\ oracle_lamports + SumUpTo(node_lamports, MaxNodes + 1)
       = OracleRent + total_nodes * (NodeRent + collateral)

\* A resolve has paid a reward in a round where a node was slashed
C1_Witness ==
  /\ op = "resolve"
  /\ \E n \in Joined : node_lamports[n] > NodeRent
  /\ \E n \in Joined : node[n].slashed /\ node_lamports[n] < NodeRent

\* ------------------------------------------------------------------ C2
\* C2 (phase monotonicity): every step leaves the phase as it is or moves it
\* to the next phase of Precommit, Commit, Reveal, Complete; no step leaves
\* Complete.
C2_PhaseMonotonic ==
  [][/\ phase' \in {phase, phase + 1}
     /\ phase' \in {Precommit, Commit, Reveal, Complete}
     /\ (phase = Complete => phase' = Complete)]_vars

\* A round has gone through all four phases
C2_Witness == phase = Complete /\ op = "resolve" /\ committed_nodes = MaxNodes

\* ------------------------------------------------------------------ C3
\* C3 (commitment binding): for a node with a commitment and no revealed
\* vote, in phase Reveal with now <= reveal_end_time, reveal(vote, nonce)
\* signed by the node's authority succeeds exactly when the hash of (vote,
\* nonce) is the stored commitment and fails with InvalidReveal otherwise;
\* and every node with a revealed vote v holds a commitment that is the hash
\* of v and some nonce.
C3_CommitmentBinding ==
  /\ \A n \in Committed \ Revealed : \A v \in BOOLEAN, r \in Nonces :
       (phase = Reveal /\ now <= reveal_end_time) =>
         reveal_error(n, node[n].authority, v, r) =
           (IF hash(concat(v, r)) = unwrap(node[n].vote_hash)
              THEN "Ok" ELSE "InvalidReveal")
  /\ \A n \in Revealed :
       /\ n \in Committed
       /\ \E r \in Nonces : <<unwrap(node[n].vote), r>> \in Openings(n)

\* A node has just revealed while another one, committed, has not
C3_Witness ==
  /\ op = "reveal"
  /\ now <= reveal_end_time
  /\ Revealed # {}
  /\ \E n \in Committed \ Revealed : Openings(n) # {}

\* ------------------------------------------------------------------ C4
\* C4 (no double action): a commit for a node that holds a commitment fails,
\* whoever signs and whatever the phase, and no step changes a stored
\* commitment; a reveal for a node that holds a vote fails, whatever vote
\* and nonce, and no step changes a stored vote.
C4_NoDoubleAction ==
  /\ [](\A n \in Committed : \A k \in Keys : commit_error(n, k) # "Ok")
  /\ [](\A n \in Revealed : \A k \in Keys, v \in BOOLEAN, r \in Nonces :
          reveal_error(n, k, v, r) # "Ok")
  /\ [][\A n \in Nodes :
          /\ node[n].vote_hash # None =>
               node'[n].vote_hash = node[n].vote_hash
          /\ node[n].vote # None => node'[n].vote = node[n].vote]_vars

\* A node has revealed while the reveal window is still open
C4_Witness ==
  phase = Reveal /\ now <= reveal_end_time /\ Revealed # {} /\ op = "reveal"

\* ------------------------------------------------------------------ C5
\* C5 (inclusive reveal deadline): in phase Reveal, a reveal that opens the
\* commitment of a node without a vote, signed by its authority, succeeds
\* whenever now <= reveal_end_time and fails with RevealPhaseClosed whenever
\* now > reveal_end_time.
C5_RevealDeadline ==
  \A n \in Committed \ Revealed : \A p \in Openings(n) :
    phase = Reveal =>
      reveal_error(n, node[n].authority, p[1], p[2]) =
        (IF now <= reveal_end_time THEN "Ok" ELSE "RevealPhaseClosed")

\* A reveal has succeeded at now = reveal_end_time while another node can
\* still open its commitment
C5_Witness ==
  /\ op = "reveal"
  /\ now = reveal_end_time
  /\ \E n \in Committed \ Revealed : Openings(n) # {}

\* ------------------------------------------------------------------ C6
\* C6 (rejected slash proof): in phase Commit, slash_colluding against a
\* node that holds a commitment, with a (vote, nonce) pair that does not
\* hash to it, fails with InvalidCollusion, and no step of the system is
\* such a call: it changes no balance, flag, phase or counter.
C6_InvalidCollusion ==
  /\ [](\A n \in Committed : \A v \in BOOLEAN, r \in Nonces :
          (phase = Commit /\ <<v, r>> \notin Openings(n)) =>
            slash_colluding_error(n, v, r) = "InvalidCollusion")
  /\ [][\A n \in Committed : \A v \in BOOLEAN, r \in Nonces :
          (phase = Commit /\ <<v, r>> \notin Openings(n)) =>
            ~slash_colluding(n, v, r)]_vars

\* A slashing has succeeded against a node for which other pairs are no
\* proof, while another committed node admits no proof at all
C6_Witness ==
  /\ op = "slash_colluding"
  /\ phase = Commit
  /\ \E n \in Committed : node[n].slashed /\ Openings(n) # BOOLEAN \X Nonces
  /\ \E n \in Committed : ~node[n].slashed /\ Openings(n) = {}

Voters(accts, vote) ==
  {i \in DOMAIN accts :
     ~node[accts[i]].slashed /\ node[accts[i]].vote = Some(vote)}

\* C8 (slashed nodes are excluded from settlement): the resolution bit a
\* resolve stores is the majority among the listed accounts that are not
\* slashed, whatever the slashed ones have revealed, and a resolve never
\* changes the balance of a slashed node.
C8_SlashedExcluded ==
  /\ [](op = "resolve" =>
          resolution_bit = (Cardinality(Voters(accounts, TRUE))
                              > Cardinality(Voters(accounts, FALSE))))
  /\ [][op' = "resolve" =>
          \A n \in Nodes :
            node[n].slashed => node_lamports'[n] = node_lamports[n]]_vars

\* A resolve has paid a reward while a slashed node that had revealed the
\* winning vote was in the list
C8_Witness ==
  /\ op = "resolve"
  /\ \E i \in DOMAIN accounts :
       /\ node[accounts[i]].slashed
       /\ node[accounts[i]].vote = Some(resolution_bit)
  /\ \E n \in Joined : node_lamports[n] > NodeRent

\* ------------------------------------------------------------------ C9
\* The joined nodes that are not slashed and hold the vote
RoundVoters(vote) ==
  {n \in Joined : ~node[n].slashed /\ node[n].vote = Some(vote)}

\* C9 (majority tally): after a successful resolve, is_resolved is true and
\* resolution_bit is true exactly when more non-slashed nodes of the round
\* have revealed true than have revealed false.
C9_MajorityOfRound ==
  phase = Complete =>
    /\ is_resolved
    /\ resolution_bit = (Cardinality(RoundVoters(TRUE))
                           > Cardinality(RoundVoters(FALSE)))

\* ------------------------------------------------------------------ C10
\* The stake the pool holds: its lamports above the rent it was created with
PoolStake == oracle_lamports - OracleRent

\* C10 (resolve never over-pays): a resolve pays out at most the stake the
\* pool holds before the call, so the stake is not negative afterwards; and
\* a resolve in which no listed node holds the consensus vote pays nothing.
C10_NoOverpay ==
  /\ [](PoolStake >= 0)
  /\ [][op' = "resolve" =>
          /\ oracle_lamports - oracle_lamports' <= PoolStake
          /\ (Voters(accounts', resolution_bit') = {} =>
                /\ oracle_lamports' = oracle_lamports
                /\ node_lamports' = node_lamports)]_vars

\* ------------------------------------------------------------------ C11
\* The list handed to resolve names every joined node exactly once
HonestList(accts) ==
  \A n \in Nodes :
    Cardinality({i \in DOMAIN accts : accts[i] = n})
      = (IF n \in Joined THEN 1 ELSE 0)

\* C11 (forfeited stake goes to the consensus nodes): after a successful
\* resolve that was handed every joined node exactly once and found at least
\* one consensus node, the stake left in the pool is less than the number of
\* consensus nodes, so everything staked or forfeited in the round, by
\* slash_colluding or by not revealing, has been paid to the consensus nodes;
\* and a joined node that is not slashed and has not revealed has received
\* nothing.
C11_ForfeitsPaidOut ==
  (/\ op = "resolve"
   /\ HonestList(accounts)
   /\ Voters(accounts, resolution_bit) # {})
    => /\ PoolStake < Cardinality(Voters(accounts, resolution_bit))
       /\ \A n \in Joined :
            (~node[n].slashed /\ node[n].vote = None)
              => node_lamports[n] = NodeRent

\* ------------------------------------------------------------------ C12
\* No node of the round is slashed and every joined node has revealed vote
Unanimous(vote) ==
  /\ Joined # {}
  /\ \A n \in Joined : ~node[n].slashed /\ node[n].vote = Some(vote)

\* C12 (no forfeits, no reward): after a successful resolve of a round in
\* which no node was slashed and every joined node committed and revealed
\* the same vote v, resolution_bit is v, the consensus count is the number of
\* joined nodes, reward_per_node is 0, and every node ends holding what it
\* held before it joined.
C12_NoForfeitNoReward ==
  \A v \in BOOLEAN :
    (op = "resolve" /\ Unanimous(v))
      => /\ resolution_bit = v
         /\ consensus_nodes(accounts) = Cardinality(Joined)
         /\ reward_per_node(accounts) = 0
         /\ \A n \in Joined :
              node_lamports[n] + wallet_lamports[n] = WalletFunds

\* ------------------------------------------------------------------ C13
\* C13 as claimed (start_request error outcomes): a start_request by a signer
\* that is not the authority fails with UnauthorizedAccess in whatever phase,
\* one by the authority fails with InvalidPhase unless the phase is
\* Precommit, and a start_request succeeds only for the authority in
\* Precommit, setting phase = Commit and committed_nodes = 0.
C13_UnauthorizedInAnyPhase ==
  /\ [](\A k \in Keys :
          /\ k # authority => start_request_error(k) = "UnauthorizedAccess"
          /\ (k = authority /\ phase # Precommit)
               => start_request_error(k) = "InvalidPhase"
          /\ (k = authority /\ phase = Precommit)
               => start_request_error(k) = "Ok")
  /\ [][op' = "start_request" =>
          /\ phase = Precommit
          /\ phase' = Commit
          /\ committed_nodes' = 0]_vars

\* C13 (start_request error outcomes, phase checked first): a start_request
\* in a phase other than Precommit fails with InvalidPhase whoever signs it;
\* in Precommit one by a signer that is not the authority fails with
\* UnauthorizedAccess; it succeeds only for the authority in Precommit, and
\* then sets phase = Commit and committed_nodes = 0 and changes nothing else
\* of the oracle, of the nodes or of the balances.
C13_StartRequestErrors ==
  /\ [](\A k \in Keys :
          /\ phase # Precommit => start_request_error(k) = "InvalidPhase"
          /\ (phase = Precommit /\ k # authority)
               => start_request_error(k) = "UnauthorizedAccess"
          /\ (phase = Precommit /\ k = authority)
               => start_request_error(k) = "Ok")
  /\ [][op' = "start_request" =>
          /\ phase = Precommit
          /\ phase' = Commit
          /\ committed_nodes' = 0
          /\ UNCHANGED <<authority, collateral, is_resolved, resolution_bit,
                         reveal_end_time, reveal_duration, max_nodes,
                         total_nodes, node, lamport_vars>>]_vars

\* A start_request has succeeded after nodes had joined, and in the Commit
\* phase it opened a signer that is not the authority gets InvalidPhase
C13_Witness ==
  /\ op = "start_request"
  /\ phase = Commit
  /\ total_nodes > 0
  /\ \E k \in Keys : k # authority /\ start_request_error(k) = "InvalidPhase"

ShortLists == UNION {[1..k -> Nodes] : k \in 0..1}

\* Whether some reveal of node n by its authority would succeed now
CanReveal(n) ==
  \E v \in BOOLEAN, r \in Nonces : reveal_error(n, n, v, r) = "Ok"

C17_SlashedDisabled ==
  /\ [](\A n \in Nodes :
          node[n].slashed =>
            /\ commit_error(n, node[n].authority) # "Ok"
            /\ \A v \in BOOLEAN, r \in Nonces :
                 reveal_error(n, node[n].authority, v, r) # "Ok")
  /\ [][\A n \in Nodes :
          node[n].slashed =>
            /\ node'[n].slashed
            /\ node'[n].vote_hash = node[n].vote_hash
            /\ node'[n].vote = node[n].vote]_vars

\* ------------------------------------------------------------------ C18
\* C18 (a node's stake is forfeited at most once): before resolve pays any
\* reward a node account has lost at most collateral to slash_colluding,
\* and a slash_colluding against a node that is already slashed moves no
\* lamports out of that node.
C18_SlashedAtMostOnce ==
  /\ [](phase # Complete =>
          \A n \in Joined : NodeRent - node_lamports[n] <= collateral)
  /\ [][op' = "slash_colluding" =>
          \A n \in Nodes :
            node[n].slashed => node_lamports'[n] = node_lamports[n]]_vars

CanProgress ==
  \/ phase = Precommit /\ start_request_error(authority) = "Ok"
  \/ phase = Commit
       /\ \E n \in Joined : commit_error(n, node[n].authority) = "Ok"
  \/ phase = Reveal /\ now <= reveal_end_time /\ ENABLED (Tick \/ WindowTick)
  \/ phase = Reveal /\ now > reveal_end_time /\ resolve_error(<<>>) = "Ok"

=============================================================================
